---- MODULE Spec2Model ----
(***************************************************************************)
(* A model of update_contributions.py: one run of main(), from the first   *)
(* repository page request to the write of the README.                     *)
(*                                                                         *)
(* Representation of the program's values                                  *)
(*   - a JSON value returned by api() is a record tagged with its shape:   *)
(*     a list carries its length, a mapping carries its keys as a TLA+     *)
(*     function (dict.get is Get);                                         *)
(*   - a URL is the sequence of the pieces its f-string joins, so that     *)
(*     `"search" in url` is decided piece by piece (ContainsSearch);       *)
(*   - html_url is the sequence of its "/"-separated segments, a merge     *)
(*     timestamp the sequence of its fields and separators, and the        *)
(*     formatted "Mon YYYY" the sequence of its blank-separated words;     *)
(*   - the README and the rendered sections are sequences of tokens: a     *)
(*     marker comment, a newline, the text "Last updated: ", the text      *)
(*     "-->", or a run of other text, each one token;                      *)
(*   - a fraction count / total is the pair <<count, total>>.              *)
(* The content of a page is drawn when the program reads it: a page of     *)
(* raw search items is its length when fetched, and each item is drawn     *)
(* when the collection loop visits it.                                     *)
(***************************************************************************)
EXTENDS Bags, FiniteSets, Integers, Sequences, TLC

(***************************************************************************)
(* Program constants                                                       *)
(***************************************************************************)
GITHUB_API == "https://api.github.com"
MAX_PRS == 20
PER_PAGE == 100
RAW_FACTOR == 3
TOP_LANGS == 8
BAR_CELLS == 20
SECTION_START == "<!-- OSS_CONTRIBUTIONS_START -->"
SECTION_END == "<!-- OSS_CONTRIBUTIONS_END -->"
LANG_START == "<!-- TOP_LANGUAGES_START -->"
LANG_END == "<!-- TOP_LANGUAGES_END -->"

(***************************************************************************)
(* Bounds of the model                                                     *)
(***************************************************************************)
\* the longest short page served where the items themselves are varied
MaxItems == 3
\* the platform serves at most this many pages to one fetch
MaxPages == 2
\* the longest README drawn for the patcher
MaxDoc == 4

(***************************************************************************)
(* JSON values and dict access                                             *)
(***************************************************************************)
EmptyDict == << >>
JList(n, names) == [shape |-> "list", len |-> n, full_names |-> names]
JMap(d) == [shape |-> "map", val |-> d]
EmptyList == JList(0, {})
EmptyMap == JMap(EmptyDict)

\* d.get(k, default) on a dict
Get(d, k, default) == IF k \in DOMAIN d THEN d[k] ELSE default

\* len(data)
PyLen(data) == IF data.shape = "list" THEN data.len ELSE Cardinality(DOMAIN data.val)

\* `not data`
Falsy(data) == PyLen(data) = 0

(***************************************************************************)
(* The HTTP client                                                         *)
(***************************************************************************)
\* the pieces of text, among those the model builds URLs from, that contain
\* the substring "search"
SearchTexts == {"/search/issues?q=type:pr+author:", "researcher",
                "researcher/dotfiles", "elastic/elasticsearch"}

ContainsSearch(piece) == piece \in SearchTexts

\* "search" in url
HasSearch(url) == \E k \in 1..Len(url) : ContainsSearch(url[k])

HttpError(resp) == resp.code >= 400

\* api(url): the parsed body, or on HTTPError [] for a search URL and {} otherwise
api(url, resp) ==
    IF HttpError(resp)
    THEN IF HasSearch(url) THEN EmptyList ELSE EmptyMap
    ELSE resp.body

(***************************************************************************)
(* What the platform may answer, by profile of the run.  A profile bounds  *)
(* the inputs: "items" varies the raw search items over short pages,       *)
(* "pages" serves full pages of plain items, "langs" varies the language   *)
(* data and the user name.                                                 *)
(***************************************************************************)
Profiles == {"items", "pages", "langs"}

Usernames(p) == IF p = "langs" THEN {"o1x3", "researcher"} ELSE {"o1x3"}

PageSizes(p) ==
    IF p = "pages" THEN {0, 1, PER_PAGE - 1, PER_PAGE} ELSE 0..MaxItems

\* page number `pg` of a listing: the last page the platform serves is not full
SizesOfPage(p, pg) ==
    IF pg >= MaxPages THEN PageSizes(p) \ {PER_PAGE} ELSE PageSizes(p)

Codes == {200, 403}

\* the full names, among those the search items may name, a repository
\* listing of the user may hold
ListedNames(p) ==
    IF p = "items" THEN {"o1x3/dotfiles", "psf/requests"} ELSE {"o1x3/dotfiles"}

ReposResponses(p, pg) ==
    {[code |-> 403, body |-> EmptyMap]} \cup
    UNION {{[code |-> 200, body |-> JList(n, s)] :
                s \in {t \in SUBSET ListedNames(p) : Cardinality(t) <= n}} :
            n \in SizesOfPage(p, pg)}

SearchResponses(p, pg) ==
    {[code |-> 403, body |-> EmptyMap],
     [code |-> 200, body |-> JMap([total_count |-> 0])]} \cup
    {[code |-> 200, body |-> JMap([total_count |-> n, items |-> n])] :
        n \in SizesOfPage(p, pg)}

\* html_url of a pull request of repository owner/name, by its "/" segments
PullUrl(owner, name) == <<"https:", "", "github.com", owner, name, "pull", "7">>

HtmlUrls(p) ==
    IF p = "items"
    THEN {<<"https:", "", "github.com">>,
          PullUrl("o1x3", "dotfiles"), PullUrl("psf", "requests"),
          PullUrl("elastic", "elasticsearch")}
    ELSE IF p = "pages"
    THEN {<<"https:", "", "github.com">>, PullUrl("psf", "requests")}
    ELSE {PullUrl("psf", "requests")}

\* an ISO-8601 merge timestamp, by its fields and separators
IsoZ(y, m) == <<y, "-", m, "-", "15", "T", "10:00:00", "Z">>
IsoOffset(y, m) == <<y, "-", m, "-", "15", "T", "10:00:00", "+00:00">>

MergedAts(p) ==
    IF p = "items"
    THEN {IsoZ("2023", "12"), IsoZ("2024", "01"), IsoOffset("2024", "01")}
    ELSE {IsoZ("2024", "01")}

\* the raw search items: dicts, with html_url or pull_request.merged_at absent
\* in some of them
RawItems(p) ==
    LET base == [title |-> <<"Fix typo">>, number |-> 7]
        withUrl == {base} \cup {[title |-> <<"Fix typo">>, number |-> 7, html_url |-> u] :
                                    u \in HtmlUrls(p)}
        pulls == {[merged_at |-> t] : t \in MergedAts(p)}
    IN  (IF p = "items" THEN withUrl ELSE {}) \cup
        {[title |-> <<"Fix typo">>, number |-> 7, html_url |-> u, pull_request |-> q] :
            u \in HtmlUrls(p), q \in pulls}

\* the repository object of a full name
RepoObject(full_name) ==
    IF full_name = "psf/requests"
    THEN [stargazers_count |-> 52000, language |-> "Python"]
    ELSE [stargazers_count |-> 940, language |-> "Java"]

InfoResponses(full_name) ==
    {[code |-> 403, body |-> EmptyMap],
     [code |-> 200, body |-> JMap(RepoObject(full_name))]}

\* the repositories a type=owner listing of the user holds
OwnerRepos(p, user) ==
    {[fork |-> f, full_name |-> user \o "/dotfiles",
      languages_url |-> <<GITHUB_API, "/repos/", user \o "/dotfiles", "/languages">>] :
        f \in IF p = "langs" THEN BOOLEAN ELSE {FALSE}}

\* a languages mapping, by its (language, bytes) pairs in the order of the JSON
LangsABC == <<<<"A", 300>>, <<"B", 100>>, <<"C", 600>>>>
LangsNine == <<<<"Python", 400>>, <<"Go", 250>>, <<"Rust", 120>>, <<"C", 90>>,
               <<"Shell", 60>>, <<"HTML", 40>>, <<"CSS", 25>>, <<"Lua", 10>>,
               <<"Zig", 5>>>>

LangsResponses(p) ==
    IF p = "langs"
    THEN {[code |-> 403, body |-> EmptyMap], [code |-> 200, body |-> EmptyMap],
          [code |-> 200, body |-> JMap(LangsABC)],
          [code |-> 200, body |-> JMap(LangsNine)]}
    ELSE {[code |-> 200, body |-> JMap(LangsABC)]}

OwnerResponses(p, pg) ==
    {[code |-> 403, body |-> EmptyMap]} \cup
    {[code |-> 200, body |-> JList(n, {})] : n \in SizesOfPage(p, pg)}

(***************************************************************************)
(* Tokens of the README and of the rendered sections                       *)
(***************************************************************************)
NL == "\n"

\* the code fence of three backquotes
FENCE == "~~~"
TS == "Last updated: "
ARROW == "-->"
Markers == {SECTION_START, SECTION_END, LANG_START, LANG_END}

\* datetime.now(timezone.utc).strftime("%b %d, %Y")
Now == "Nov 01, 2026"

\* the README of the run
Readme0 == <<"# Hi", NL, SECTION_START, NL, "old", NL, SECTION_END, NL,
             LANG_START, NL, LANG_END, NL, "<!-- ", TS, "Jan 01, 2024 ", ARROW, NL>>

(***************************************************************************)
(* State                                                                   *)
(***************************************************************************)
VARIABLES
    profile,     \* the profile of the platform's answers in this run
    username,    \* args.username
    pc,          \* the statement of main() the run is at
    exc,         \* the exception that ended the run, "" while there is none
    page,        \* `page` of the running paginated fetch
    reqlog,      \* the page requests of the running fetch and their answers
    owned,       \* get_user_repos: repos; main: owned
    prs,         \* get_merged_prs: len(prs); main: len(prs)
    i,           \* main: the number of raw items the collection loop has visited
    pr,          \* main: the loop variable pr, the raw item last visited
    repo_cache,  \* main: repo_cache
    external,    \* main: external
    repos,       \* get_top_languages: len(repos) of the page in hand
    j,           \* get_top_languages: the repositories of that page visited
    lang_bytes,  \* get_top_languages: lang_bytes, in insertion order
    served,      \* the repositories get_top_languages visited, with the answer
                 \* to each languages request (a bag; history only)
    languages,   \* main: languages
    contrib_md,  \* main: contrib_md
    lang_md,     \* main: lang_md
    readme,      \* the file args.readme
    content      \* main: content

vars == <<profile, username, pc, exc, page, reqlog, owned, prs,
          i, pr, repo_cache, external, repos, j, lang_bytes, served, languages,
          contrib_md, lang_md, readme, content>>

docVars == <<contrib_md, lang_md, readme, content>>

fetchVars == <<page, reqlog, owned, prs>>
loopVars == <<i, pr, repo_cache, external>>
langVars == <<repos, j, lang_bytes, served, languages>>

Init ==
    /\ profile \in Profiles
    /\ username \in Usernames(profile)
    /\ pc = "get_user_repos"
    /\ exc = ""
    /\ page = 1
    /\ reqlog = << >>
    /\ owned = {}
    /\ prs = 0
    /\ i = 0
    /\ pr = EmptyDict
    /\ repo_cache = EmptyDict
    /\ external = << >>
    /\ repos = 0
    /\ j = 0
    /\ lang_bytes = << >>
    /\ served = EmptyBag
    /\ languages = << >>
    /\ contrib_md = << >>
    /\ lang_md = << >>
    /\ readme = Readme0
    /\ content = << >>

Raise(e) == pc' = "raised" /\ exc' = e

\* the log holds the requests of one fetch: the first request of the next
\* fetch starts it afresh
Logged(fn, resp, n) ==
    LET entry == [fn |-> fn, page |-> page, code |-> resp.code, n |-> n]
    IN  IF reqlog # << >> /\ reqlog[1].fn # fn
        THEN <<entry>>
        ELSE Append(reqlog, entry)

ShortPage_Never(n) == FALSE

\* `if len(data) < 100: break`
ShortPage(n) == n < PER_PAGE

(***************************************************************************)
(* get_user_repos: one iteration of its while loop                         *)
(***************************************************************************)
get_user_repos ==
    /\ pc = "get_user_repos"
    /\ \E resp \in ReposResponses(profile, page) :
        LET url == <<GITHUB_API, "/users/", username,
                     "/repos?per_page=100&page=", ToString(page), "&type=all">>
            data == api(url, resp)
        IN  /\ reqlog' = Logged("get_user_repos", resp, PyLen(data))
            /\ IF Falsy(data)
               THEN /\ owned' = owned
                    /\ pc' = "get_merged_prs"
                    /\ page' = 1
               ELSE /\ owned' = owned \cup data.full_names
                    /\ IF ShortPage(PyLen(data))
                       THEN pc' = "get_merged_prs" /\ page' = 1
                       ELSE pc' = pc /\ page' = page + 1
    /\ UNCHANGED <<profile, username, exc, prs, loopVars, langVars, docVars>>

(***************************************************************************)
(* get_merged_prs: one iteration of its while loop                         *)
(***************************************************************************)
get_merged_prs ==
    /\ pc = "get_merged_prs"
    /\ \E resp \in SearchResponses(profile, page) :
        LET url == <<GITHUB_API, "/search/issues?q=type:pr+author:", username,
                     "+is:merged", "&sort=updated&order=desc&per_page=100&page=",
                     ToString(page)>>
            data == api(url, resp)
            \* the list under "items", as its length
            items == IF data.shape = "map" THEN Get(data.val, "items", 0) ELSE 0
        IN  /\ reqlog' = Logged("get_merged_prs", resp, items)
            /\ IF data.shape # "map"
               THEN \* data.get on a list
                    Raise("AttributeError") /\ UNCHANGED <<prs, page>>
               ELSE IF items = 0
                    THEN pc' = "collect" /\ page' = 1 /\ UNCHANGED <<prs, exc>>
                    ELSE /\ prs' = prs + items
                         /\ exc' = exc
                         /\ IF ShortPage(items) \/ ~(prs' < MAX_PRS * RAW_FACTOR)
                            THEN pc' = "collect" /\ page' = 1
                            ELSE pc' = pc /\ page' = page + 1
    /\ UNCHANGED <<profile, username, owned, loopVars, langVars, docVars>>

(***************************************************************************)
(* extract_repo and the merge date                                         *)
(***************************************************************************)
None == "None"

\* extract_repo(pr): owner/name from segments 3 and 4 of html_url, or None
extract_repo(item) ==
    LET parts == Get(item, "html_url", <<"">>)
    IN  IF Len(parts) >= 5 THEN parts[4] \o "/" \o parts[5] ELSE None

MonthAbbr == <<"Jan", "Feb", "Mar", "Apr", "May", "Jun",
               "Jul", "Aug", "Sep", "Oct", "Nov", "Dec">>

MonthDigits == <<"01", "02", "03", "04", "05", "06",
                 "07", "08", "09", "10", "11", "12">>

\* the years whose decimal text the model reads and writes
YearRange == 2020..2026

\* int(text) of a decimal numeral
PyInt(text) == CHOOSE n \in YearRange : ToString(n) = text

IsNumeral(text) == \E n \in YearRange : ToString(n) = text

\* datetime.strptime(raw, "%Y-%m-%dT%H:%M:%SZ"): the date, or ValueError
strptime(raw) ==
    IF /\ Len(raw) = 8
       /\ IsNumeral(raw[1]) /\ raw[2] = "-"
       /\ (\E m \in 1..12 : MonthDigits[m] = raw[3]) /\ raw[4] = "-"
       /\ raw[6] = "T" /\ raw[8] = "Z"
    THEN [ok |-> TRUE, year |-> PyInt(raw[1]),
          month |-> CHOOSE m \in 1..12 : MonthDigits[m] = raw[3]]
    ELSE [ok |-> FALSE, year |-> 0, month |-> 0]

\* date.strftime("%b %Y"), by its words
strftime(date) == <<MonthAbbr[date.month], ToString(date.year)>>

\* the placeholder of an absent merge date: one word, an em dash
Unknown == <<"-">>

(***************************************************************************)
(* main: one iteration of the loop over prs                                *)
(***************************************************************************)
CapReached_OffByOne(ext) == Len(ext) > MAX_PRS

\* `if len(external) >= MAX_PRS: break`
CapReached(ext) == Len(ext) >= MAX_PRS

Skipped_NoOwned(repo, own) == repo = None

\* `if not repo or repo in owned: continue`
Skipped(repo, own) == repo = None \/ repo \in own

LoopEnds(n, ext) == n = prs \/ CapReached(ext)

collect ==
    /\ pc = "collect"
    /\ i < prs /\ ~CapReached(external)
    /\ \E item \in RawItems(profile) :
        LET repo == extract_repo(item)
        IN  /\ pr' = item
            /\ i' = i + 1
            /\ IF Skipped(repo, owned)
               THEN UNCHANGED <<repo_cache, external, pc, exc>>
               ELSE \E resp \in InfoResponses(repo) :
                    LET cache == IF repo \in DOMAIN repo_cache
                                 THEN repo_cache
                                 ELSE (repo :> api(<<GITHUB_API, "/repos/", repo>>, resp))
                                      @@ repo_cache
                        info == cache[repo]
                        merged_raw == Get(Get(item, "pull_request", EmptyDict),
                                          "merged_at", << >>)
                        date == strptime(merged_raw)
                        merged_at == IF merged_raw # << >> THEN strftime(date) ELSE Unknown
                    IN  /\ repo \in DOMAIN repo_cache => resp.code = 200
                        /\ repo_cache' = cache
                        /\ IF merged_raw # << >> /\ ~date.ok
                           THEN Raise("ValueError") /\ UNCHANGED external
                           ELSE IF info.shape # "map"
                           THEN Raise("AttributeError") /\ UNCHANGED external
                           ELSE /\ external' = Append(external,
                                    [repo |-> repo,
                                     title |-> item.title,
                                     number |-> item.number,
                                     url |-> item.html_url,
                                     merged_at |-> merged_at,
                                     stars |-> Get(info.val, "stargazers_count", 0),
                                     language |-> Get(info.val, "language", None)])
                                /\ UNCHANGED <<pc, exc>>
    /\ UNCHANGED <<profile, username, fetchVars, langVars, docVars>>

(***************************************************************************)
(* main: external.sort(key=sort_key, reverse=True)                         *)
(***************************************************************************)
month_order == [Jan |-> 1, Feb |-> 2, Mar |-> 3, Apr |-> 4, May |-> 5, Jun |-> 6,
                Jul |-> 7, Aug |-> 8, Sep |-> 9, Oct |-> 10, Nov |-> 11, Dec |-> 12]

sort_key_MonthFirst(c) ==
    LET parts == c.merged_at
    IN  IF Len(parts) = 2
        THEN <<Get(month_order, parts[1], 0), PyInt(parts[2])>>
        ELSE <<0, 0>>

sort_key(c) ==
    LET parts == c.merged_at
    IN  IF Len(parts) = 2
        THEN <<PyInt(parts[2]), Get(month_order, parts[1], 0)>>
        ELSE <<0, 0>>

\* a < b on pairs
TupleLess(a, b) == a[1] < b[1] \/ (a[1] = b[1] /\ a[2] < b[2])

\* list.sort(key=key, reverse=True): descending, entries of equal key in their
\* order of arrival
RECURSIVE SortedReverse(_)
SortedReverse(s) ==
    IF s = << >> THEN << >>
    ELSE LET rest == SortedReverse(SubSeq(s, 1, Len(s) - 1))
             x == s[Len(s)]
             \* x goes after every entry whose key is not less than its own
             k == Cardinality({m \in 1..Len(rest) :
                                 ~TupleLess(sort_key(rest[m]), sort_key(x))})
         IN  SubSeq(rest, 1, k) \o <<x>> \o SubSeq(rest, k + 1, Len(rest))

sort ==
    /\ pc = "collect"
    /\ LoopEnds(i, external)
    /\ external' = SortedReverse(external)
    /\ pc' = "get_top_languages"
    \* prs, pr, repo_cache and the loop's position are not read again
    /\ prs' = 0 /\ i' = 0 /\ pr' = EmptyDict /\ repo_cache' = EmptyDict
    /\ UNCHANGED <<profile, username, exc, page, reqlog, owned, langVars, docVars>>

(***************************************************************************)
(* get_top_languages                                                       *)
(***************************************************************************)
\* lang_bytes[lang] = lang_bytes.get(lang, 0) + count
AddBytes(lb, lang, count) ==
    IF \E k \in 1..Len(lb) : lb[k][1] = lang
    THEN [k \in 1..Len(lb) |->
            IF lb[k][1] = lang THEN <<lang, lb[k][2] + count>> ELSE lb[k]]
    ELSE Append(lb, <<lang, count>>)

\* for lang, count in langs.items(): ...
RECURSIVE AddAll(_, _)
AddAll(lb, pairs) ==
    IF pairs = << >> THEN lb
    ELSE AddAll(AddBytes(lb, pairs[1][1], pairs[1][2]), Tail(pairs))

\* sum(lang_bytes.values())
RECURSIVE SumBytes(_)
SumBytes(lb) == IF lb = << >> THEN 0 ELSE lb[1][2] + SumBytes(Tail(lb))

\* sorted(lang_bytes.items(), key=lambda x: x[1], reverse=True)
RECURSIVE RankedReverse(_)
RankedReverse(s) ==
    IF s = << >> THEN << >>
    ELSE LET rest == RankedReverse(SubSeq(s, 1, Len(s) - 1))
             x == s[Len(s)]
             k == Cardinality({m \in 1..Len(rest) : rest[m][2] >= x[2]})
         IN  SubSeq(rest, 1, k) \o <<x>> \o SubSeq(rest, k + 1, Len(rest))

\* ranked[:8]
Top(s) == SubSeq(s, 1, IF Len(s) < TOP_LANGS THEN Len(s) ELSE TOP_LANGS)

top_languages_RetainedTotal(lb) ==
    LET ranked == Top(RankedReverse(lb))
        sum == SumBytes(ranked)
        total == IF sum = 0 THEN 1 ELSE sum
    IN  [k \in 1..Len(ranked) |-> <<ranked[k][1], <<ranked[k][2], total>>>>]

\* the lines after the loop: total, ranked, and the (lang, count / total) pairs
top_languages(lb) ==
    LET sum == SumBytes(lb)
        total == IF sum = 0 THEN 1 ELSE sum
        ranked == Top(RankedReverse(lb))
    IN  [k \in 1..Len(ranked) |-> <<ranked[k][1], <<ranked[k][2], total>>>>]

\* one request of a page of the user's own repositories
get_top_languages ==
    /\ pc = "get_top_languages"
    /\ \E resp \in OwnerResponses(profile, page) :
        LET url == <<GITHUB_API, "/users/", username,
                     "/repos?per_page=100&page=", ToString(page),
                     "&type=owner&sort=updated">>
            data == api(url, resp)
        IN  /\ reqlog' = Logged("get_top_languages", resp, PyLen(data))
            /\ IF Falsy(data)
               THEN /\ languages' = top_languages(lang_bytes)
                    /\ pc' = "build"
                    /\ page' = 1
                    /\ UNCHANGED <<repos, j>>
               ELSE /\ repos' = PyLen(data)
                    /\ j' = 0
                    /\ pc' = "languages"
                    /\ UNCHANGED <<page, languages>>
    /\ UNCHANGED <<profile, username, exc, owned, prs, loopVars, lang_bytes, served, docVars>>

\* `if repo.get("fork"): continue`
is_fork(repo) == Get(repo, "fork", FALSE)

\* one iteration of `for repo in repos`, and what follows the last one
languages_of_repo ==
    /\ pc = "languages"
    /\ j < repos
    /\ \E repo \in OwnerRepos(profile, username), resp \in LangsResponses(profile) :
        LET langs == api(repo.languages_url, resp)
            lb == IF is_fork(repo) THEN lang_bytes ELSE AddAll(lang_bytes, langs.val)
            last == j + 1 = repos
        \* resp is what the platform holds for the repository, asked for or not
        IN  /\ served' = served (+) SetToBag({[fork |-> repo.fork, code |-> resp.code,
                                               body |-> resp.body]})
            /\ j' = j + 1
            /\ IF ~is_fork(repo) /\ langs.shape # "map"
               THEN \* langs.items() on a list
                    Raise("AttributeError") /\ UNCHANGED <<lang_bytes, languages, page>>
               ELSE /\ lang_bytes' = lb
                    /\ exc' = exc
                    /\ IF ~last
                       THEN UNCHANGED <<pc, page, languages>>
                       ELSE IF ShortPage(repos)
                       THEN /\ languages' = top_languages(lb)
                            /\ pc' = "build"
                            /\ page' = 1
                       ELSE /\ pc' = "get_top_languages"
                            /\ page' = page + 1
                            /\ languages' = languages
    /\ UNCHANGED <<profile, username, reqlog, owned, prs, loopVars, repos, docVars>>

(***************************************************************************)
(* The renderers.  A rendered section is a sequence of tokens; a number    *)
(* printed with one decimal (%.1f of a float) is kept as the text of the   *)
(* quotient it prints, unevaluated.                                        *)
(***************************************************************************)

LANG_EMOJI == [Python |-> ":snake:", Go |-> ":hamster:", Rust |-> ":crab:",
               C |-> ":gear:", Shell |-> ":shell:", HTML |-> ":globe:",
               CSS |-> ":art:", Lua |-> ":moon:", Zig |-> ":zap:", Java |-> ":coffee:"]

RECURSIVE Spaces(_)
Spaces(n) == IF n <= 0 THEN "" ELSE " " \o Spaces(n - 1)

\* f"{text:<14}"
PadLeft14(text) == text \o Spaces(14 - Len(text))

RECURSIVE Repeat(_, _)
Repeat(cell, n) == IF n <= 0 THEN << >> ELSE <<cell>> \o Repeat(cell, n - 1)

\* num / den to the nearest integer, a tie to the even one: round(), and the
\* digits that the format .1f keeps
PyRound(num, den) ==
    LET q == num \div den
        r == num % den
    IN  IF 2 * r < den THEN q
        ELSE IF 2 * r > den THEN q + 1
        ELSE IF q % 2 = 0 THEN q ELSE q + 1

bar_width_Rounded(pct) == PyRound(pct[1] * BAR_CELLS, pct[2])

\* int(pct * 20), pct the fraction <<count, total>>
bar_width(pct) == (pct[1] * BAR_CELLS) \div pct[2]

\* "█" * bar_width + "░" * (20 - bar_width), one token a cell
bar(pct) == Repeat("#", bar_width(pct)) \o Repeat(".", BAR_CELLS - bar_width(pct))

\* f"  {emoji} {lang:<14} {bar} {pct * 100:5.1f}%"
lang_line(lang, pct) ==
    <<"  " \o Get(LANG_EMOJI, lang, ":package:") \o " " \o PadLeft14(lang) \o " ">>
    \o bar(pct)
    \o <<" (" \o ToString(pct[1]) \o "/" \o ToString(pct[2]) \o "*100:5.1f)%">>

\* "\n".join(lines), lines a sequence of token sequences
RECURSIVE JoinLines(_)
JoinLines(lines) ==
    IF lines = << >> THEN << >>
    ELSE IF Len(lines) = 1 THEN lines[1]
    ELSE lines[1] \o <<NL>> \o JoinLines(Tail(lines))

build_lang_section(langs) ==
    IF langs = << >> THEN << >>
    ELSE <<FENCE, NL>>
         \o JoinLines([k \in 1..Len(langs) |-> lang_line(langs[k][1], langs[k][2])])
         \o <<NL, FENCE>>

\* format_stars(n): n / 1000 with one digit after the point
format_stars(n) ==
    IF n >= 1000
    THEN LET tenths == PyRound(n, 100)
         IN  ToString(tenths \div 10) \o "." \o ToString(tenths % 10) \o "k"
    ELSE ToString(n)

RECURSIVE SumStars(_)
SumStars(cs) == IF cs = << >> THEN 0 ELSE cs[1].stars + SumStars(Tail(cs))

\* sep.join(segs): a URL from its "/" segments, a date from its words
RECURSIVE Join(_, _)
Join(sep, segs) ==
    IF segs = << >> THEN ""
    ELSE IF Len(segs) = 1 THEN segs[1]
    ELSE segs[1] \o sep \o Join(sep, Tail(segs))

\* one row of the table; the title is text of the pull request's author
contribution_row(c) ==
    LET lang == IF c.language = None THEN "" ELSE c.language
        emoji == Get(LANG_EMOJI, lang, "")
        repo_cell == "[" \o c.repo \o "](https://github.com/" \o c.repo \o ") . "
                     \o emoji \o " " \o format_stars(c.stars) \o " :star:"
    IN  <<"| " \o repo_cell \o " | [">> \o c.title
        \o <<"](" \o Join("/", c.url) \o ") | " \o Join(" ", c.merged_at) \o " |">>

build_contributions_section(contributions) ==
    IF contributions = << >> THEN <<"*No external contributions yet.*">>
    ELSE LET total == Len(contributions)
             nrepos == Cardinality({contributions[k].repo : k \in 1..total})
             summary == "**" \o ToString(total) \o "** merged PRs across **"
                        \o ToString(nrepos) \o "** repos ("
                        \o format_stars(SumStars(contributions)) \o " combined stars)"
         IN  <<summary, NL, NL, "| Repository | PR | Merged |", NL, "|---|---|---|", NL>>
             \o JoinLines([k \in 1..total |-> contribution_row(contributions[k])])

(***************************************************************************)
(* The document patcher                                                    *)
(***************************************************************************)

\* escapes of a replacement template: the whole match, a literal backslash,
\* and one that re rejects
GROUP0 == "\\g<0>"
BACKSLASH2 == "\\\\"
BAD_ESCAPE == "\\U"

\* the replacement template `repl` expanded for the matched text
RECURSIVE expand_template(_, _)
expand_template(repl, matched) ==
    IF repl = << >> THEN << >>
    ELSE IF Len(repl) = 1
    THEN IF repl[1] = GROUP0 THEN matched
         ELSE IF repl[1] = BACKSLASH2 THEN <<"\\">>
         ELSE repl
    ELSE LET half == Len(repl) \div 2
         IN  expand_template(SubSeq(repl, 1, half), matched)
             \o expand_template(SubSeq(repl, half + 1, Len(repl)), matched)

\* the least index after `from` holding token `tok`, 0 if none
IndexFrom(doc, tok, from) ==
    LET hits == {k \in (from + 1)..Len(doc) : doc[k] = tok}
    IN  IF hits = {} THEN 0 ELSE CHOOSE k \in hits : \A m \in hits : k <= m

\* pattern.sub(full, content) for start .*? end with DOTALL: every match, left
\* to right, replaced
RECURSIVE sub_section(_, _, _, _)
sub_section(doc, start, end, full) ==
    LET a == IndexFrom(doc, start, 0)
        b == IF a = 0 THEN 0 ELSE IndexFrom(doc, end, a)
    IN  IF b = 0 THEN doc
        ELSE SubSeq(doc, 1, a - 1)
             \o expand_template(full, SubSeq(doc, a, b))
             \o sub_section(SubSeq(doc, b + 1, Len(doc)), start, end, full)

\* pattern.search(content)
section_found(doc, start, end) ==
    LET a == IndexFrom(doc, start, 0)
    IN  a # 0 /\ IndexFrom(doc, end, a) # 0

\* re raises on a bad escape in the template when it substitutes
template_error(doc, start, end, new_section) ==
    /\ section_found(doc, start, end)
    /\ \E k \in 1..Len(new_section) : new_section[k] = BAD_ESCAPE

replace_section(doc, start, end, new_section) ==
    LET full == <<start, NL>> \o new_section \o <<NL, end>>
    IN  IF section_found(doc, start, end)
        THEN sub_section(doc, start, end, full)
        ELSE doc

\* the end of the match of "Last updated: .+?-->" that starts at token a, 0
\* if none: the first "-->" on the line with a character before it, a
\* marker comment ending in "-->" too
StampEnd(doc, a) ==
    LET ends == {b \in (a + 1)..Len(doc) :
                    /\ \A k \in (a + 1)..b : doc[k] # NL
                    /\ \/ doc[b] \in Markers
                       \/ doc[b] = ARROW /\ b > a + 1}
    IN  IF ends = {} THEN 0 ELSE CHOOSE b \in ends : \A m \in ends : b <= m

\* re.sub(r"Last updated: .+?-->", f"Last updated: {now} -->", content): every
\* match, left to right, replaced
RECURSIVE sub_timestamp(_, _)
sub_timestamp(doc, now) ==
    LET starts == {a \in 1..Len(doc) : doc[a] = TS /\ StampEnd(doc, a) # 0}
    IN  IF starts = {} THEN doc
        ELSE LET a == CHOOSE k \in starts : \A m \in starts : k <= m
                 b == StampEnd(doc, a)
             IN  SubSeq(doc, 1, a - 1) \o <<TS, now \o " ", ARROW>>
                 \o sub_timestamp(SubSeq(doc, b + 1, Len(doc)), now)

build_sections ==
    /\ pc = "build"
    /\ contrib_md' = build_contributions_section(external)
    /\ lang_md' = build_lang_section(languages)
    /\ pc' = "replace_contributions"
    /\ UNCHANGED <<profile, username, exc, fetchVars, loopVars, langVars, readme, content>>

\* open(args.readme).read() and the first replace_section
replace_contributions ==
    /\ pc = "replace_contributions"
    /\ IF template_error(readme, SECTION_START, SECTION_END, contrib_md)
       THEN Raise("re.error") /\ content' = readme
       ELSE /\ content' = replace_section(readme, SECTION_START, SECTION_END, contrib_md)
            /\ pc' = "replace_languages"
            /\ exc' = exc
    /\ UNCHANGED <<profile, username, fetchVars, loopVars, langVars, readme,
                   contrib_md, lang_md>>

replace_languages ==
    /\ pc = "replace_languages"
    /\ IF template_error(content, LANG_START, LANG_END, lang_md)
       THEN Raise("re.error") /\ content' = content
       ELSE /\ content' = replace_section(content, LANG_START, LANG_END, lang_md)
            /\ pc' = "update_timestamp"
            /\ exc' = exc
    /\ UNCHANGED <<profile, username, fetchVars, loopVars, langVars, readme,
                   contrib_md, lang_md>>

update_timestamp ==
    /\ pc = "update_timestamp"
    /\ content' = sub_timestamp(content, Now)
    /\ pc' = "write"
    /\ UNCHANGED <<profile, username, exc, fetchVars, loopVars, langVars, readme,
                   contrib_md, lang_md>>

\* open(args.readme, "w").write(content)
write_readme ==
    /\ pc = "write"
    /\ readme' = content
    /\ pc' = "done"
    /\ UNCHANGED <<profile, username, exc, fetchVars, loopVars, langVars, content,
                   contrib_md, lang_md>>

Next ==
    \/ get_user_repos
    \/ get_merged_prs
    \/ collect
    \/ sort
    \/ get_top_languages
    \/ languages_of_repo
    \/ build_sections
    \/ replace_contributions
    \/ replace_languages
    \/ update_timestamp
    \/ write_readme

Spec == Init /\ [][Next]_vars

(***************************************************************************)
(* Claims about the run (checked under Spec)                               *)
(***************************************************************************)

\* C1: an HTTP error status on any request is absorbed as an empty list or
\* mapping that every caller tolerates, so the run never ends with the
\* exception a caller raises on the empty shape it was handed.
C1_HttpErrorTolerated ==
    pc = "raised" => exc # "AttributeError"

\* C8: a malformed or missing html_url or merged_at of one raw item never
\* ends the run: the item is skipped or gets the placeholder.
C8_MalformedItemTolerated ==
    pc = "raised" => exc # "ValueError"

\* C2: no collected contribution names a repository of the exclusion set,
\* while external is built and after it is capped and sorted.
C2_ExclusionFilter ==
    \A k \in 1..Len(external) : external[k].repo \notin owned

\* the loop is over, its last raw item came from a repository of the
\* exclusion set, and contributions were collected
C2_Witness ==
    /\ pc = "collect" /\ i = prs
    /\ extract_repo(pr) \in owned
    /\ external # << >>

\* C3: external never holds more than MAX_PRS entries, and once it holds
\* MAX_PRS the loop visits no further raw item.
C3_CapInvariant ==
    /\ Len(external) <= MAX_PRS
    /\ Len(external) >= MAX_PRS => ~ENABLED collect

\* the cap is reached with raw items still unvisited
C3_Witness ==
    /\ pc = "collect"
    /\ Len(external) = MAX_PRS
    /\ i < prs

\* the (year, month) a formatted merge date stands for, by the calendar
CalendarDate(words) ==
    <<PyInt(words[2]), CHOOSE m \in 1..12 : MonthAbbr[m] = words[1]>>

Parseable(words) ==
    /\ Len(words) = 2
    /\ \E m \in 1..12 : MonthAbbr[m] = words[1]
    /\ IsNumeral(words[2])

\* the sort has just run, or the run is over
Sorted == pc \in {"get_top_languages", "done"}

\* C4: after the sort, of two entries with a parseable "Mon YYYY" the one
\* with the later (year, month) comes first, and every entry with an unknown
\* date comes after all the parseable ones.
C4_SortOrder ==
    Sorted =>
        LET dated == {<<k, Parseable(external[k].merged_at),
                        IF Parseable(external[k].merged_at)
                        THEN CalendarDate(external[k].merged_at)
                        ELSE <<0, 0>>>> : k \in 1..Len(external)}
        IN  \A x, y \in dated :
                x[1] < y[1] =>
                    /\ x[2] /\ y[2] => ~TupleLess(x[3], y[3])
                    /\ ~x[2] => ~y[2]

\* a sorted list with two different parseable months and an unknown date
C4_Witness ==
    /\ pc = "get_top_languages"
    /\ Len(external) = 3
    /\ external[1].merged_at = <<"Jan", "2024">>
    /\ external[2].merged_at = <<"Dec", "2023">>
    /\ external[3].merged_at = Unknown

\* the page requests of the running fetch, in order, with the length of each
\* answer
GatheredBefore(k) ==
    LET RECURSIVE upto(_)
        upto(m) == IF m = 0 THEN 0 ELSE reqlog[m].n + upto(m - 1)
    IN  upto(k - 1)

\* C5: each paginated fetch asks for pages 1, 2, 3, ... in order, asks for a
\* next page only after a full page of PER_PAGE items (get_merged_prs only
\* while it holds fewer than 3 * MAX_PRS raw items), and after a short or an
\* empty page asks for no further page: it is no longer in its loop.
C5_Pagination ==
    LET n == Len(reqlog)
    IN  /\ \A k \in 1..n : reqlog[k].page = k
        /\ \A k \in 1..(n - 1) : reqlog[k].code = 200 /\ reqlog[k].n = PER_PAGE
        /\ \A k \in 2..n :
              reqlog[k].fn = "get_merged_prs"
                  => GatheredBefore(k) < RAW_FACTOR * MAX_PRS
        /\ (n > 0 /\ reqlog[n].n < PER_PAGE) =>
              /\ pc # "get_user_repos"
              /\ pc \in {"get_merged_prs", "get_top_languages"} => reqlog[1].fn # pc

\* a fetch got a full page, then a short one, and returned
C5_Witness ==
    /\ pc = "build"
    /\ Len(reqlog) = 2
    /\ reqlog[1].n = PER_PAGE
    /\ reqlog[2].n \in 1..(PER_PAGE - 1)

\* the languages of the model's responses
LangNames == {LangsABC[k][1] : k \in 1..Len(LangsABC)}
             \cup {LangsNine[k][1] : k \in 1..Len(LangsNine)}

\* the bytes a mapping holds for a language
BytesOf(pairs, lang) ==
    IF \E k \in 1..Len(pairs) : pairs[k][1] = lang
    THEN pairs[CHOOSE k \in 1..Len(pairs) : pairs[k][1] = lang][2]
    ELSE 0

\* the bytes of a language over the visited repositories that are no forks
\* and whose languages request was answered
RECURSIVE BytesOver(_, _)
BytesOver(answers, lang) ==
    IF answers = {} THEN 0
    ELSE LET e == CHOOSE x \in answers : TRUE
         IN  CopiesIn(e, served) * BytesOf(e.body.val, lang)
             + BytesOver(answers \ {e}, lang)

Counted == {e \in BagToSet(served) : ~e.fork /\ e.code = 200}

RECURSIVE SumOver(_, _)
SumOver(f, names) ==
    IF names = {} THEN 0
    ELSE LET x == CHOOSE y \in names : TRUE
         IN  f[x] + SumOver(f, names \ {x})

\* get_top_languages has just returned, or the run is over
Ranked == pc \in {"build", "done"}

\* C9: lang_bytes holds, per language, the bytes summed over the visited
\* repositories that are no forks; the result holds at most TOP_LANGS pairs,
\* the languages of the largest byte counts in descending order, each with
\* its bytes over the grand total of all languages (1 when there are none).
C9_TopLanguages ==
    LET expected == {<<l, BytesOver(Counted, l)>> : l \in LangNames}
        bytes == [l \in LangNames |-> (CHOOSE x \in expected : x[1] = l)[2]]
        sum == SumOver(bytes, LangNames)
        total == IF sum = 0 THEN 1 ELSE sum
        n == Len(languages)
        kept == {languages[k][1] : k \in 1..n}
    IN  /\ \A l \in LangNames : BytesOf(lang_bytes, l) = bytes[l]
        /\ \A k \in 1..Len(lang_bytes) : lang_bytes[k][1] \in LangNames
        /\ Ranked =>
              /\ n <= TOP_LANGS
              /\ n = TOP_LANGS \/ n = Len(lang_bytes)
              /\ Cardinality(kept) = n
              /\ \A k \in 1..n :
                    /\ BytesOf(lang_bytes, languages[k][1]) > 0 \/ n = Len(lang_bytes)
                    /\ languages[k][2] = <<bytes[languages[k][1]], total>>
              /\ \A k, m \in 1..n : k < m => languages[k][2][1] >= languages[m][2][1]
              /\ \A k \in 1..Len(lang_bytes) :
                    lang_bytes[k][1] \notin kept
                        => \A m \in 1..n : lang_bytes[k][2] <= languages[m][2][1]
              /\ lang_bytes = LangsABC =>
                    languages = <<<<"C", <<600, 1000>>>>, <<"A", <<300, 1000>>>>,
                                  <<"B", <<100, 1000>>>>>>

\* more than TOP_LANGS languages were found, a fork with language data was
\* passed over, and the result is cut to TOP_LANGS
C9_Witness ==
    /\ pc = "build"
    /\ Len(lang_bytes) > TOP_LANGS
    /\ Len(languages) = TOP_LANGS
    /\ \E e \in BagToSet(served) : e.fork /\ e.code = 200 /\ e.body.val # << >>

\* the k-th line of a rendered section
LineOf(md, k) ==
    LET breaks == {p \in 1..Len(md) : md[p] = NL}
        nth(m) == IF m = 0 THEN 0
                  ELSE IF m > Cardinality(breaks) THEN Len(md) + 1
                  ELSE CHOOSE p \in breaks : Cardinality({q \in breaks : q <= p}) = m
    IN  SubSeq(md, nth(k - 1) + 1, nth(k) - 1)

IsCell(tok) == tok \in {"#", "."}

\* the bar of the line of language k: its cells, and whether the filled ones
\* come first
BarOf(k) == SelectSeq(LineOf(lang_md, k + 1), IsCell)

FilledOf(cells) == Cardinality({p \in 1..Len(cells) : cells[p] = "#"})

FilledFirst(cells) ==
    \A p, q \in 1..Len(cells) : cells[p] = "." /\ cells[q] = "#" => q < p

\* build_lang_section has just returned, or the run is over
Built == pc \in {"replace_contributions", "done"}

\* C10 as stated: every bar has BAR_CELLS cells, round(fraction * 20) of them
\* filled.
C10_BarRounded ==
    Built =>
        \A k \in 1..Len(languages) :
            LET cells == BarOf(k)
                pct == languages[k][2]
            IN  /\ Len(cells) = BAR_CELLS
                /\ FilledOf(cells) = PyRound(pct[1] * BAR_CELLS, pct[2])

\* C10 as amended: every bar has BAR_CELLS cells, the filled ones first, and
\* their number is fraction * 20 rounded down.
C10_BarFloored ==
    Built =>
        \A k \in 1..Len(languages) :
            LET cells == BarOf(k)
                pct == languages[k][2]
                filled == FilledOf(cells)
            IN  /\ Len(cells) = BAR_CELLS
                /\ FilledFirst(cells)
                /\ filled * pct[2] <= pct[1] * BAR_CELLS
                /\ pct[1] * BAR_CELLS < (filled + 1) * pct[2]

\* a rendered language whose fraction * 20 is no integer and lies in the
\* upper half between two integers
C10_Witness ==
    /\ pc = "replace_contributions"
    /\ \E k \in 1..Len(languages) :
        LET pct == languages[k][2]
        IN  2 * ((pct[1] * BAR_CELLS) % pct[2]) > pct[2]

(***************************************************************************)
(* The patcher on its own: main from build_sections on, for READMEs of up  *)
(* to MaxDoc tokens and for pull-request titles that hold marker text or   *)
(* backslash escapes.  The state is the one main is in after the fetches   *)
(* of a run that found these contributions and these languages.            *)
(***************************************************************************)
DocTokens == Markers \cup {NL, TS, ARROW, "text"}

Docs == UNION {[1..n -> DocTokens] : n \in 0..MaxDoc}

PatchTitles == {<<"Fix typo">>,
                <<"Document ", SECTION_END>>,
                <<"Render ", LANG_START>>,
                <<"Fix C:", BAD_ESCAPE, "sers path">>,
                <<"Keep ", GROUP0>>}

PatchContribution(title) ==
    [repo |-> "psf/requests", title |-> title, number |-> 7,
     url |-> PullUrl("psf", "requests"), merged_at |-> <<"Jan", "2024">>,
     stars |-> 52000, language |-> "Python"]

InitPatch ==
    /\ profile = "items"
    /\ username = "o1x3"
    /\ pc = "build"
    /\ exc = ""
    /\ page = 1
    /\ owned = {}
    /\ prs = 0 /\ i = 0 /\ pr = EmptyDict /\ repo_cache = EmptyDict
    /\ external \in {<< >>} \cup {<<PatchContribution(t)>> : t \in PatchTitles}
    /\ \E n \in 0..1 :
        /\ repos = n /\ j = n
        /\ reqlog = <<[fn |-> "get_top_languages", page |-> 1, code |-> 200, n |-> n]>>
        /\ lang_bytes = IF n = 0 THEN << >> ELSE LangsABC
        /\ served = IF n = 0 THEN EmptyBag
                    ELSE SetToBag({[fork |-> FALSE, code |-> 200,
                                    body |-> JMap(LangsABC)]})
        /\ languages = top_languages(lang_bytes)
    /\ contrib_md = << >>
    /\ lang_md = << >>
    /\ readme \in Docs
    /\ content = << >>

NextPatch ==
    \/ build_sections
    \/ replace_contributions
    \/ replace_languages
    \/ update_timestamp
    \/ write_readme

SpecPatch == InitPatch /\ [][NextPatch]_vars

(***************************************************************************)
(* Claims about the patcher (checked under SpecPatch)                      *)
(***************************************************************************)

\* C6: replace_section applied a second time with the same markers and the
\* same fragment returns what the first application returned, also when the
\* fragment holds marker text.
C6_Idempotent ==
    /\ pc = "replace_languages"
           => replace_section(content, SECTION_START, SECTION_END, contrib_md) = content
    /\ pc = "update_timestamp"
           => replace_section(content, LANG_START, LANG_END, lang_md) = content

\* the positions of a document inside a span from a start marker to the next
\* end marker, spans taken left to right
RECURSIVE SpanPositions(_, _, _, _)
SpanPositions(doc, start, end, from) ==
    LET a == IndexFrom(doc, start, from)
        b == IF a = 0 THEN 0 ELSE IndexFrom(doc, end, a)
    IN  IF b = 0 THEN {} ELSE (a..b) \cup SpanPositions(doc, start, end, b)

\* the positions of a document inside a "Last updated: ...-->" comment
RECURSIVE StampPositions(_, _)
StampPositions(doc, from) ==
    LET starts == {a \in (from + 1)..Len(doc) : doc[a] = TS /\ StampEnd(doc, a) # 0}
    IN  IF starts = {} THEN {}
        ELSE LET a == CHOOSE k \in starts : \A m \in starts : k <= m
             IN  (a..StampEnd(doc, a)) \cup StampPositions(doc, StampEnd(doc, a))

\* the positions outside every marker-bounded span and every timestamp comment
Outside(doc) ==
    (1..Len(doc)) \ (SpanPositions(doc, SECTION_START, SECTION_END, 0)
                     \cup SpanPositions(doc, LANG_START, LANG_END, 0)
                     \cup StampPositions(doc, 0))

\* the maximal runs of outside text from position p on, in order
RECURSIVE Segments(_, _, _)
Segments(doc, out, p) ==
    IF p > Len(doc) THEN << >>
    ELSE IF p \notin out THEN Segments(doc, out, p + 1)
    ELSE LET e == CHOOSE x \in p..Len(doc) :
                      /\ \A y \in p..x : y \in out
                      /\ x = Len(doc) \/ (x + 1) \notin out
         IN  <<SubSeq(doc, p, e)>> \o Segments(doc, out, e + 1)

\* the least position from `from` on where seg occurs in doc, 0 if none
Find(doc, seg, from) ==
    LET hits == {q \in from..(Len(doc) - Len(seg) + 1) :
                    SubSeq(doc, q, q + Len(seg) - 1) = seg}
    IN  IF hits = {} THEN 0 ELSE CHOOSE q \in hits : \A m \in hits : q <= m

\* the runs occur in final in order from position `from` on, the last one at
\* the end of final when atEnd
RECURSIVE InOrder(_, _, _, _, _)
InOrder(final, segs, k, from, atEnd) ==
    IF k > Len(segs) THEN TRUE
    ELSE IF k = Len(segs) /\ atEnd
    THEN LET q == Len(final) - Len(segs[k]) + 1
         IN  q >= from /\ SubSeq(final, q, Len(final)) = segs[k]
    ELSE LET q == Find(final, segs[k], from)
         IN  q # 0 /\ InOrder(final, segs, k + 1, q + Len(segs[k]), atEnd)

\* everything of orig outside the spans and the timestamp comment is in final,
\* in order and in place at both ends
Framed(orig, final) ==
    LET out == Outside(orig)
        segs == Segments(orig, out, 1)
    IN  IF out = 1..Len(orig) THEN final = orig
        ELSE /\ 1 \in out => SubSeq(final, 1, Len(segs[1])) = segs[1]
             /\ InOrder(final, segs, 1, 1, Len(orig) \in out)

\* C7: a marker pair that is not in the document makes replace_section return
\* the document unchanged and raise nothing, and the patch step leaves
\* everything outside the marker-bounded spans and the timestamp comment of
\* the document unchanged.
C7_MarkerFrame ==
    /\ (pc = "replace_languages" /\ ~section_found(readme, SECTION_START, SECTION_END))
           => content = readme
    /\ (pc = "raised" /\ exc = "re.error")
           => \/ section_found(readme, SECTION_START, SECTION_END)
              \/ section_found(content, LANG_START, LANG_END)
    /\ pc = "write" => Framed(readme, content)

====
